---- MODULE Spec2Model ----
(***************************************************************************)
(* Task queue (lib/cuckoo/core/database.py) and the autoprocess scheduling *)
(* loop (utils/process.py) of the Cuckoo sandbox, as a state machine.      *)
(*                                                                         *)
(* Spec      : the Task Store driven by client processes that call add,    *)
(*             fetch, process and complete.                                *)
(* AutoSpec  : the autoprocess loop over a store of executed tasks, with   *)
(*             its pool workers and the execution stage as environment.    *)
(***************************************************************************)
EXTENDS Integers, Sequences, FiniteSets, TLC

VARIABLES
    tasks,            \* the "tasks" table: id -> row
    inserted,         \* history: ids in the order add() inserted them
    now,              \* the wall clock read by datetime.now()
    loaded,           \* per client process: value of datetime.now() when database.py was imported
    ret,              \* the last Task Store call and what it returned
    pc,               \* autoprocess: position of the control loop
    count,            \* autoprocess: local variable count
    pending_results,  \* autoprocess: local list pending_results
    parallel,         \* autoprocess: argument parallel
    maxcount,         \* autoprocess: cfg.cuckoo.max_analysis_count
    listed,           \* autoprocess: local variable tasks (result of db.list_tasks)
    added,            \* autoprocess: local variable added
    submitted,        \* history: ids of the tasks autoprocess handed to the pool
    wpc,              \* process(): position of one call
    wargs,            \* process(): its arguments and the configuration it reads
    steps,            \* history: what the call of process() has done, in order
    exc,              \* process(): the exception the call ended with, or "none"
    files,            \* the sample files on disk (target, copy_path)
    analysis,         \* mongodb: the analysis collection, _id -> document
    blobs,            \* mongodb: ids of the files stored in GridFS
    calls,            \* mongodb: ids of the documents in the calls collection
    disp,             \* the dispatchers: position, fetched task, result of process()
    cw                \* concurrent pool workers: position in the cleanup block

vars == <<tasks, inserted, now, loaded, ret, pc, count, pending_results,
          parallel, maxcount, listed, added, submitted,
          wpc, wargs, steps, exc, files, analysis, blobs, calls, disp, cw>>

storeVars == <<tasks, inserted, now, loaded, ret>>
loopVars == <<pc, count, pending_results, parallel, maxcount, listed, added, submitted>>
workerVars == <<wpc, wargs, steps, exc, files>>
mongoVars == <<analysis, blobs, calls>>
concVars == <<disp, cw>>
extVars == <<workerVars, mongoVars, concVars>>
autoVars == <<loopVars, extVars>>

----------------------------------------------------------------------------
(* Bounds of the model *)

MaxTasks == 2
MaxTime == 1
MaxAutoTasks == 3
MaxP == 2
MaxCount == 2

(* Sentinels *)

NoTime == -1
NoId == 0

Procs == {"submit", "web"}
ExistingPaths == {"/bin/sample"}
Paths == {"", "/missing/file"} \cup ExistingPaths
Priorities == {1, 5}

----------------------------------------------------------------------------
(* Task rows *)

\* Column defaults of class Task: status "pending", completed_on NULL.
\* added_on's default is the value datetime.now() had when the class body ran,
\* i.e. when the calling process imported the module.
NewTask(path, prio, importTime) ==
    [file_path |-> path, priority |-> prio, added_on |-> importTime,
     completed_on |-> NoTime, status |-> "pending"]

SetMax(S) == CHOOSE x \in S : \A y \in S : y <= x
SetMin(S) == CHOOSE x \in S : \A y \in S : x <= y

\* Mutant of NewId: the id of the newest row is handed out again.
NewIdReused(ts) == IF DOMAIN ts = {} THEN 1 ELSE SetMax(DOMAIN ts)

\* Integer primary key: the database hands out the next unused row id.
NewId(ts) == IF DOMAIN ts = {} THEN 1 ELSE SetMax(DOMAIN ts) + 1

\* os.path.exists(file_path)
PathExists(path) == path \in ExistingPaths

\* add(): "if not file_path or not os.path.exists(file_path): return None"
AddRejects(path) == path = "" \/ ~PathExists(path)

\* session.add(task); session.commit()
InsertRow(ts, id, row) ==
    [i \in DOMAIN ts \cup {id} |-> IF i = id THEN row ELSE ts[i]]

----------------------------------------------------------------------------
(* fetch *)

\* Mutant of IsPending: rows being processed are selected too.
IsPendingOrProcessing(row) == row.status \in {"pending", "processing"}

\* filter(Task.status == "pending")
IsPending(row) == row.status = "pending"

PendingIds(ts) == {i \in DOMAIN ts : IsPending(ts[i])}

\* Mutant of OrderBefore: priority ascending.
OrderBeforeAsc(a, b) ==
    \/ a.priority < b.priority
    \/ a.priority = b.priority /\ a.added_on < b.added_on

\* order_by("priority desc, added_on"): row a sorts strictly before row b
OrderBefore(a, b) ==
    \/ a.priority > b.priority
    \/ a.priority = b.priority /\ a.added_on < b.added_on

\* .first(): a row no other selected row sorts before; rows that compare equal
\* under the ORDER BY come out in an order the database does not define.
FetchRows(ts) ==
    {i \in PendingIds(ts) : \A j \in PendingIds(ts) : ~OrderBefore(ts[j], ts[i])}

----------------------------------------------------------------------------
(* _set_status, process, complete *)

\* session.query(Task).get(task_id) is None for an id that is not stored, and
\* the attribute assignment on it raises AttributeError.
GetRaises(ts, id) == id \notin DOMAIN ts

\* _set_status: row.status = status; commit, or rollback when the commit fails
SetStatusRows(ts, id, status, commitOk) ==
    IF commitOk THEN [ts EXCEPT ![id].status = status] ELSE ts

\* Mutant of CompleteStatus: the two outcomes swapped.
CompleteStatusSwapped(success) == IF success THEN "failure" ELSE "success"

\* complete(): success -> "success", otherwise "failure"
CompleteStatus(success) == IF success THEN "success" ELSE "failure"

\* complete(): status and completed_on = datetime.now(); commit or rollback
CompleteRows(ts, id, success, t, commitOk) ==
    IF commitOk
    THEN [ts EXCEPT ![id].status = CompleteStatus(success), ![id].completed_on = t]
    ELSE ts

Bool(b) == IF b THEN "true" ELSE "false"

----------------------------------------------------------------------------
(* The Task Store driven by its client processes *)

NoCall == [op |-> "none", arg |-> NoId, val |-> "none", row |-> NoId]

AutoIdle ==
    /\ pc = "off"
    /\ count = 0
    /\ pending_results = <<>>
    /\ parallel = 1
    /\ maxcount = 0
    /\ listed = <<>>
    /\ added = FALSE
    /\ submitted = {}

\* No call of process() is under way and the mongodb store is empty.
NoArgs == [task |-> NoId, report |-> FALSE, auto |-> FALSE, mongo |-> FALSE,
           delete_original |-> FALSE, delete_bin_copy |-> FALSE]

\* The processes that fetch and claim tasks, each with its own session.
Dispatchers == {"d1", "d2"}

\* A dispatcher between two rounds.
IdleDisp == [pc |-> "idle", row |-> NoId, val |-> "none", committed |-> FALSE]

\* The pool workers that run the cleanup block side by side; worker w handles
\* the task with id w.
CWorkers == {1, 2}

MaxRecords == 2      \* analysis documents in the mongodb store
MaxBlobs == 2        \* files in GridFS
NoBlob == 0          \* the key file_id / pcap_id / sorted_pcap_id is absent

Blobs == 1..MaxBlobs

\* No analysis document; no file whose count has just been found to be 1.
NoDoc == [info_id |-> NoId, target |-> NoBlob, shots |-> {}, pcap |-> NoBlob,
          sorted_pcap |-> NoBlob, dropped |-> {}, calls |-> {}]
NoHit == <<"none", NoBlob>>

\* A pool worker that runs no cleanup.
IdleCw == [pc |-> "off", left |-> {}, doc |-> NoId, todo |-> {}, hit |-> NoHit,
           orig |-> NoDoc]

ExtIdle ==
    /\ disp = [d \in Dispatchers |-> IdleDisp]
    /\ cw = [w \in CWorkers |-> IdleCw]
    /\ wpc = "off"
    /\ wargs = NoArgs
    /\ steps = <<>>
    /\ exc = "none"
    /\ files = {}
    /\ analysis = <<>>
    /\ blobs = {}
    /\ calls = {}

\* One client has imported the module; the table is empty.
Init ==
    /\ tasks = <<>>
    /\ inserted = <<>>
    /\ now = 0
    /\ loaded = [p \in Procs |-> IF p = "submit" THEN 0 ELSE NoTime]
    /\ ret = NoCall
    /\ AutoIdle
    /\ ExtIdle

\* The clock advances.
Tick ==
    /\ ret = NoCall
    /\ now < MaxTime
    /\ now' = now + 1
    /\ UNCHANGED <<tasks, inserted, loaded, ret, autoVars>>

\* A further client process imports database.py: the class body of Task runs
\* and Column(default=datetime.now()) captures the current time.
LoadModule(p) ==
    /\ ret = NoCall
    /\ loaded[p] = NoTime
    /\ loaded' = [loaded EXCEPT ![p] = now]
    /\ UNCHANGED <<tasks, inserted, now, ret, autoVars>>

\* Database.add(file_path, priority=prio) called by client p
Add(p, path, prio, commitOk) ==
    /\ ret = NoCall
    /\ loaded[p] # NoTime
    /\ IF AddRejects(path)
       THEN /\ ret' = [op |-> "add", arg |-> NoId, val |-> "none", row |-> NoId]
            /\ UNCHANGED <<tasks, inserted>>
       ELSE IF commitOk /\ Cardinality(DOMAIN tasks) < MaxTasks
            THEN LET id == NewId(tasks) IN
                 /\ tasks' = InsertRow(tasks, id, NewTask(path, prio, loaded[p]))
                 /\ inserted' = Append(inserted, id)
                 /\ ret' = [op |-> "add", arg |-> NoId, val |-> "id", row |-> id]
            ELSE /\ ~commitOk
                 /\ ret' = [op |-> "add", arg |-> NoId, val |-> "none", row |-> NoId]
                 /\ UNCHANGED <<tasks, inserted>>
    /\ UNCHANGED <<now, loaded, autoVars>>

\* Database.fetch(): read only
Fetch ==
    /\ ret = NoCall
    /\ \E p \in Procs : loaded[p] # NoTime
    /\ IF FetchRows(tasks) = {}
       THEN ret' = [op |-> "fetch", arg |-> NoId, val |-> "none", row |-> NoId]
       ELSE \E r \in FetchRows(tasks) :
                ret' = [op |-> "fetch", arg |-> NoId, val |-> "row", row |-> r]
    /\ UNCHANGED <<tasks, inserted, now, loaded, autoVars>>

\* Database.process(task_id) = self._set_status(task_id, "processing")
Process(id, commitOk) ==
    /\ ret = NoCall
    /\ \E p \in Procs : loaded[p] # NoTime
    /\ IF GetRaises(tasks, id)
       THEN /\ ret' = [op |-> "process", arg |-> id, val |-> "raise", row |-> NoId]
            /\ UNCHANGED tasks
       ELSE /\ tasks' = SetStatusRows(tasks, id, "processing", commitOk)
            /\ ret' = [op |-> "process", arg |-> id, val |-> Bool(commitOk), row |-> NoId]
    /\ UNCHANGED <<inserted, now, loaded, autoVars>>

\* Database.complete(task_id, success)
Complete(id, success, commitOk) ==
    /\ ret = NoCall
    /\ \E p \in Procs : loaded[p] # NoTime
    /\ IF GetRaises(tasks, id)
       THEN /\ ret' = [op |-> IF success THEN "complete_ok" ELSE "complete_fail",
                       arg |-> id, val |-> "raise", row |-> NoId]
            /\ UNCHANGED tasks
       ELSE /\ tasks' = CompleteRows(tasks, id, success, now, commitOk)
            /\ ret' = [op |-> IF success THEN "complete_ok" ELSE "complete_fail",
                       arg |-> id, val |-> Bool(commitOk), row |-> NoId]
    /\ UNCHANGED <<inserted, now, loaded, autoVars>>

\* The caller takes the value the call returned (or catches what it raised);
\* calls on the store are made one after the other.
Return ==
    /\ ret # NoCall
    /\ ret' = NoCall
    /\ UNCHANGED <<tasks, inserted, now, loaded, autoVars>>

\* Task ids a caller may pass: the stored ones and one that is not stored
CallIds == DOMAIN tasks \cup {NewId(tasks)}

\* Arguments the call reads: a rejected add reads neither its priority nor the
\* session, and a call on an id that is not stored never reaches its commit.
AddPriorities(path) == IF AddRejects(path) THEN {1} ELSE Priorities
AddCommits(path) == IF AddRejects(path) THEN {TRUE} ELSE BOOLEAN
Commits(id) == IF GetRaises(tasks, id) THEN {TRUE} ELSE BOOLEAN

Next ==
    \/ Tick
    \/ \E p \in Procs : LoadModule(p)
    \/ \E p \in Procs, path \in Paths :
          \E prio \in AddPriorities(path), ok \in AddCommits(path) :
             Add(p, path, prio, ok)
    \/ Fetch
    \/ \E id \in CallIds : \E ok \in Commits(id) : Process(id, ok)
    \/ \E id \in CallIds, s \in BOOLEAN : \E ok \in Commits(id) : Complete(id, s, ok)
    \/ Return

Spec == Init /\ [][Next]_vars

----------------------------------------------------------------------------
(* utils/process.py: the worker and the autoprocess loop *)

TASK_COMPLETED == "completed"
TASK_REPORTED == "reported"
TASK_FAILED_PROCESSING == "failed_processing"

\* Database.set_status(task_id, status) of the store autoprocess runs on.
SetStatus(ts, id, status, commitOk) ==
    IF commitOk /\ id \in DOMAIN ts THEN [ts EXCEPT ![id].status = status] ELSE ts

\* Database.list_tasks(status, limit, order_by="completed_on asc"): at most
\* limit rows in the given status, by completed_on ascending; rows with equal
\* completed_on in an order the database does not define.
ListTasks(ts, status, limit) ==
    LET S == {i \in DOMAIN ts : ts[i].status = status}
        n == IF Cardinality(S) < limit THEN Cardinality(S) ELSE limit
    IN {l \in [1..n -> S] :
          /\ \A a, b \in 1..n : a < b =>
                l[a] # l[b] /\ ts[l[a]].completed_on <= ts[l[b]].completed_on
          /\ \A i \in S \ {l[k] : k \in 1..n} :
                \A k \in 1..n : ts[l[k]].completed_on <= ts[i].completed_on}

\* process(task=..., report=True, auto=True) in a pool worker: what the call
\* ends with.  A processing, signature or reporting stage may raise.  When none
\* does, the name task_id, which process() never binds, is evaluated (line 56
\* with mongodb enabled, line 81 otherwise) and raises NameError before
\* set_status(task_id, TASK_REPORTED) is called.
ProcessOutcome(stageRaises) == IF stageRaises THEN "StageError" ELSE "NameError"

\* ar.ready(): the result of a worker that is running, or that pool.terminate()
\* killed, has not arrived
Ready(ar) == ar \notin {"running", "terminated"}

\* ar.successful()
Successful(ar) == ar = "returned"

\* Mutant of LoopCond: the cap is tested with <=.
LoopCondLe(c, m) == c <= m \/ m = 0

\* "while count < maxcount or not maxcount"
LoopCond(c, m) == c < m \/ m = 0

\* Mutant of PoolFull: one record more is let in.
PoolFullOffByOne(pr, par) == Len(pr) > par

\* "if len(pending_results) >= parallel"
PoolFull(pr, par) == Len(pr) >= par

\* "[tid for ar, tid, target, copy_path in pending_results]"
InFlightIds(pr) == {pr[k].tid : k \in DOMAIN pr}

\* pending_results after the maintenance pass: every ready record removed
Unready(pr) == SelectSeq(pr, LAMBDA r : ~Ready(r.ar))

\* Mutant of RaisedIds: every record counts as one whose worker raised.
RaisedIdsAll(pr) == {pr[k].tid : k \in DOMAIN pr}

\* The tasks whose worker raised: ar.get() re-raises and the except branch runs
RaisedIds(pr) == {pr[k].tid : k \in {j \in DOMAIN pr : Ready(pr[j].ar) /\ ~Successful(pr[j].ar)}}

\* Mutant of FirstNew: the test of lines 132-133 is left out and the first
\* listed task is taken, in flight or not.
FirstNewAny(l, pr) == IF l = <<>> THEN NoId ELSE l[1]

\* Mutant of FirstNew: the last listed task that is not in flight is taken.
FirstNewLast(l, pr) ==
    LET new == {k \in DOMAIN l : l[k] \notin InFlightIds(pr)}
    IN IF new = {} THEN NoId ELSE l[SetMax(new)]

\* "for task in tasks: if task.id in [...]: continue ... break": the first
\* listed task that has no record in pending_results, or NoId
FirstNew(l, pr) ==
    LET new == {k \in DOMAIN l : l[k] \notin InFlightIds(pr)}
    IN IF new = {} THEN NoId ELSE l[SetMin(new)]

\* The store autoprocess starts on: every task has been claimed by the
\* dispatcher and is with the execution stage.
AutoInit ==
    /\ tasks = [i \in 1..MaxAutoTasks |->
                  [file_path |-> "/bin/sample", priority |-> 1, added_on |-> 0,
                   completed_on |-> NoTime, status |-> "processing"]]
    /\ inserted = [i \in 1..MaxAutoTasks |-> i]
    /\ now = 0
    /\ loaded = [p \in Procs |-> IF p = "submit" THEN 0 ELSE NoTime]
    /\ ret = NoCall
    /\ pc = "start"
    /\ count = 0
    /\ pending_results = <<>>
    /\ parallel \in 1..MaxP
    /\ maxcount \in 0..MaxCount
    /\ listed = <<>>
    /\ added = FALSE
    /\ submitted = {}
    /\ ExtIdle

\* The execution stage finishes a task: processing -> completed.
ExecStage(id) ==
    /\ pc # "off"
    /\ tasks[id].status = "processing"
    /\ tasks' = [tasks EXCEPT ![id].status = TASK_COMPLETED, ![id].completed_on = now]
    /\ UNCHANGED <<inserted, now, loaded, ret, autoVars>>

\* line 102: the while condition
LoopTest ==
    /\ pc = "start"
    /\ pc' = IF LoopCond(count, maxcount) THEN "reap" ELSE "done"
    /\ UNCHANGED <<storeVars, count, pending_results, parallel, maxcount, listed, added,
                 submitted, extVars>>

\* lines 105-116: pending_results maintenance; failedCommits are the tasks
\* whose set_status(tid, TASK_FAILED_PROCESSING) did not commit
Reap(failedCommits) ==
    /\ pc = "reap"
    /\ failedCommits \subseteq RaisedIds(pending_results)
    /\ tasks' = [i \in DOMAIN tasks |->
                   IF i \in RaisedIds(pending_results)
                   THEN SetStatus(tasks, i, TASK_FAILED_PROCESSING,
                                  i \notin failedCommits)[i]
                   ELSE tasks[i]]
    /\ pending_results' = Unready(pending_results)
    /\ pc' = "check"
    /\ UNCHANGED <<inserted, now, loaded, ret, count, parallel, maxcount, listed, added,
                 submitted, extVars>>

\* lines 119-121: if still full, sleep and continue
Backpressure ==
    /\ pc = "check"
    /\ pc' = IF PoolFull(pending_results, parallel) THEN "start" ELSE "discover"
    /\ UNCHANGED <<storeVars, count, pending_results, parallel, maxcount, listed, added,
                 submitted, extVars>>

\* lines 125-128: tasks = db.list_tasks(...); added = False
Discover ==
    /\ pc = "discover"
    /\ \E l \in ListTasks(tasks, TASK_COMPLETED, parallel) : listed' = l
    /\ added' = FALSE
    /\ pc' = "submit"
    /\ UNCHANGED <<storeVars, count, pending_results, parallel, maxcount, submitted, extVars>>

\* lines 130-158: submit the first listed task that is not in flight, if any
Submit ==
    /\ pc = "submit"
    /\ count <= MaxCount
    /\ LET t == FirstNew(listed, pending_results) IN
         IF t = NoId
         THEN UNCHANGED <<count, pending_results, added, submitted>>
         ELSE /\ pending_results' =
                    Append(pending_results, [tid |-> t, ar |-> "running"])
              /\ count' = count + 1
              /\ added' = TRUE
              /\ submitted' = submitted \cup {t}
    /\ listed' = <<>>
    /\ pc' = "start"
    /\ UNCHANGED <<storeVars, parallel, maxcount, extVars>>

\* A pool worker's call of process() ends.
WorkerFinish(k, stageRaises) ==
    /\ pc \notin {"off", "interrupted"}
    /\ k \in DOMAIN pending_results
    /\ pending_results[k].ar = "running"
    /\ pending_results' =
          [pending_results EXCEPT ![k].ar = ProcessOutcome(stageRaises)]
    /\ UNCHANGED <<storeVars, pc, count, parallel, maxcount, listed, added, submitted, extVars>>

\* Mutant of Terminate: the workers are left running.
TerminateNone(pr) == pr

\* pool.terminate(): the worker processes are killed; the result of a call
\* that was running never arrives
Terminate(pr) ==
    [k \in DOMAIN pr |->
        IF pr[k].ar = "running" THEN [pr[k] EXCEPT !.ar = "terminated"] ELSE pr[k]]

\* lines 160-162, 167: KeyboardInterrupt in the loop: pool.terminate(), the
\* exception is raised again, and on the way out pool.join()
Interrupt ==
    /\ pc \in {"start", "reap", "check", "discover", "submit"}
    /\ pc' = "interrupted"
    /\ pending_results' = Terminate(pending_results)
    /\ UNCHANGED <<storeVars, count, parallel, maxcount, listed, added,
                 submitted, extVars>>

AutoNext ==
    \/ Tick
    \/ \E id \in DOMAIN tasks : ExecStage(id)
    \/ LoopTest
    \/ \E f \in SUBSET InFlightIds(pending_results) : Reap(f)
    \/ Backpressure
    \/ Discover
    \/ Submit
    \/ \E k \in 1..MaxP, e \in BOOLEAN : WorkerFinish(k, e)
    \/ Interrupt

AutoSpec == AutoInit /\ [][AutoNext]_vars

\* autoprocess on a store whose status commits all succeed: every
\* set_status(tid, TASK_FAILED_PROCESSING) of the maintenance pass commits.
ReliableNext ==
    \/ Tick
    \/ \E id \in DOMAIN tasks : ExecStage(id)
    \/ LoopTest
    \/ Reap({})
    \/ Backpressure
    \/ Discover
    \/ Submit
    \/ \E k \in 1..MaxP, e \in BOOLEAN : WorkerFinish(k, e)
    \/ Interrupt

ReliableSpec == AutoInit /\ [][ReliableNext]_vars

\* autoprocess started on a backlog: every task of the store has already been
\* finished by the execution stage (status completed, completed_on = 0).
BacklogInit ==
    /\ tasks = [i \in 1..MaxAutoTasks |->
                  [file_path |-> "/bin/sample", priority |-> 1, added_on |-> 0,
                   completed_on |-> 0, status |-> TASK_COMPLETED]]
    /\ inserted = [i \in 1..MaxAutoTasks |-> i]
    /\ now = 0
    /\ loaded = [p \in Procs |-> IF p = "submit" THEN 0 ELSE NoTime]
    /\ ret = NoCall
    /\ pc = "start"
    /\ count = 0
    /\ pending_results = <<>>
    /\ parallel \in 1..MaxP
    /\ maxcount \in 0..MaxCount
    /\ listed = <<>>
    /\ added = FALSE
    /\ submitted = {}
    /\ ExtIdle

BacklogNext ==
    \/ LoopTest
    \/ \E f \in SUBSET InFlightIds(pending_results) : Reap(f)
    \/ Backpressure
    \/ Discover
    \/ Submit
    \/ \E k \in 1..MaxP, e \in BOOLEAN : WorkerFinish(k, e)
    \/ Interrupt

BacklogSpec == BacklogInit /\ [][BacklogNext]_vars

----------------------------------------------------------------------------
(* Two dispatchers on one Task Store: each fetches a task with fetch() and
   claims it with process(id); every call is a transaction of its own *)

\* Mutant of SetStatusReturns: a claim of a task that is no longer pending is
\* refused.
SetStatusReturnsIfPending(ts, id, commitOk) == Bool(commitOk /\ ts[id].status = "pending")

\* _set_status: "return False" after a rollback, "return True" otherwise; the
\* status the row had is not looked at (lines 111-118)
SetStatusReturns(ts, id, commitOk) == Bool(commitOk)

\* The stores the dispatchers start on: one to MaxTasks pending tasks that a
\* client added at time 0.
DispatchInit ==
    /\ \E n \in 1..MaxTasks :
          /\ tasks \in [1..n -> {NewTask("/bin/sample", prio, 0) : prio \in Priorities}]
          /\ inserted = [i \in 1..n |-> i]
    /\ now = 0
    /\ loaded = [p \in Procs |-> IF p = "submit" THEN 0 ELSE NoTime]
    /\ ret = NoCall
    /\ AutoIdle
    /\ ExtIdle

\* Dispatcher d calls fetch() (lines 162-168): a read, nothing is marked.
DFetch(d) ==
    /\ disp[d].pc = "idle"
    /\ FetchRows(tasks) # {}
    /\ \E r \in FetchRows(tasks) :
          disp' = [disp EXCEPT ![d] = [pc |-> "fetched", row |-> r, val |-> "none",
                                       committed |-> FALSE]]
    /\ UNCHANGED <<storeVars, loopVars, workerVars, mongoVars, cw>>

\* Dispatcher d calls process(id) for the task it fetched (lines 201-206).
DProcess(d, commitOk) ==
    /\ disp[d].pc = "fetched"
    /\ tasks' = SetStatusRows(tasks, disp[d].row, "processing", commitOk)
    /\ disp' = [disp EXCEPT ![d].pc = "claimed",
                            ![d].val = SetStatusReturns(tasks, disp[d].row, commitOk),
                            ![d].committed = commitOk]
    /\ UNCHANGED <<inserted, now, loaded, ret, loopVars, workerVars, mongoVars, cw>>

\* Dispatcher d starts the analysis, or gives up after a false, and goes round.
DRelease(d) ==
    /\ disp[d].pc = "claimed"
    /\ disp' = [disp EXCEPT ![d] = IdleDisp]
    /\ UNCHANGED <<storeVars, loopVars, workerVars, mongoVars, cw>>

DispatchNext ==
    \/ \E d \in Dispatchers : DFetch(d)
    \/ \E d \in Dispatchers, c \in BOOLEAN : DProcess(d, c)
    \/ \E d \in Dispatchers : DRelease(d)

DispatchSpec == DispatchInit /\ [][DispatchNext]_vars

----------------------------------------------------------------------------
(* One call of process(), utils/process.py lines 31-88 *)

\* The sample of a task and its working copy, as far as os.path.exists sees them.
SampleFiles == {"target", "copy_path"}

\* The arguments and configuration of one call.  main() calls
\* process(task=..., report=args.report) (line 188, auto is False);
\* autoprocess submits process(target, copy_path, task, report=True, auto=True).
WorkerArgs ==
    {a \in [task : {1}, report : BOOLEAN, auto : BOOLEAN, mongo : BOOLEAN,
            delete_original : BOOLEAN, delete_bin_copy : BOOLEAN] :
        a.auto => a.report}

\* The analysis collection the calls of this specification start on: record 1
\* belongs to task 1 and is the only one to reference blob 1; record 2 belongs
\* to task 2.
SmallAnalysis ==
    [r \in 1..2 |->
        [info_id |-> r, target |-> r, shots |-> {}, pcap |-> NoBlob,
         sorted_pcap |-> NoBlob, dropped |-> {}, calls |-> {r}]]

\* A call of process() is about to start on task 1 of a store of two tasks.
WorkerInit ==
    /\ \E st \in {TASK_COMPLETED, TASK_REPORTED, TASK_FAILED_PROCESSING} :
          tasks = [i \in 1..2 |->
                     [file_path |-> "/bin/sample", priority |-> 1, added_on |-> 0,
                      completed_on |-> 0,
                      status |-> IF i = 1 THEN st ELSE TASK_COMPLETED]]
    /\ inserted = [i \in 1..2 |-> i]
    /\ now = 0
    /\ loaded = [p \in Procs |-> IF p = "submit" THEN 0 ELSE NoTime]
    /\ ret = NoCall
    /\ AutoIdle
    /\ disp = [d \in Dispatchers |-> IdleDisp]
    /\ cw = [w \in CWorkers |-> IdleCw]
    /\ wpc = "stages"
    /\ wargs \in WorkerArgs
    /\ wargs.auto => tasks[1].status = TASK_COMPLETED
    /\ steps = <<>>
    /\ exc = "none"
    /\ files = SampleFiles
    /\ analysis = SmallAnalysis
    /\ blobs = {1, 2}
    /\ calls = {1, 2}

\* lines 32-45: RunProcessing, GetFeeds, RunProcessing, RunSignatures; an
\* exception of a stage leaves process(); line 47: "if report:"
WStages(raises) ==
    /\ wpc = "stages"
    /\ IF raises
       THEN exc' = "StageError" /\ wpc' = "ended" /\ steps' = steps
       ELSE /\ exc' = exc
            /\ steps' = Append(steps, "stages")
            /\ wpc' = IF wargs.report THEN "cleanup" ELSE "ended"
    /\ UNCHANGED <<storeVars, loopVars, wargs, files, mongoVars, concVars>>

\* lines 48-56: with mongodb enabled the query of line 56 evaluates
\* int(task_id); process() binds no such name (its parameter is task) and the
\* module has no such global, so the call raises NameError before the cursor
\* exists.  With mongodb disabled the block is skipped.
WCleanup ==
    /\ wpc = "cleanup"
    /\ IF wargs.mongo
       THEN exc' = "NameError" /\ wpc' = "ended"
       ELSE exc' = exc /\ wpc' = "report"
    /\ UNCHANGED <<storeVars, loopVars, wargs, steps, files, mongoVars, concVars>>

\* line 80: RunReporting(task=task, results=results).run()
WReport(raises) ==
    /\ wpc = "report"
    /\ IF raises
       THEN exc' = "StageError" /\ wpc' = "ended" /\ steps' = steps
       ELSE exc' = exc /\ wpc' = "commit" /\ steps' = Append(steps, "report")
    /\ UNCHANGED <<storeVars, loopVars, wargs, files, mongoVars, concVars>>

\* line 81: Database().set_status(task_id, TASK_REPORTED): the argument
\* task_id is evaluated first and raises NameError, set_status is not called.
\* Lines 83-88 (os.unlink of target and copy_path) follow line 81 in the same
\* block and are therefore not reached by any call.
WCommit ==
    /\ wpc = "commit"
    /\ exc' = "NameError"
    /\ wpc' = "ended"
    /\ UNCHANGED <<storeVars, loopVars, wargs, steps, files, mongoVars, concVars>>

WorkerNext ==
    \/ \E e \in BOOLEAN : WStages(e)
    \/ WCleanup
    \/ \E e \in BOOLEAN : WReport(e)
    \/ WCommit

WorkerSpec == WorkerInit /\ [][WorkerNext]_vars

----------------------------------------------------------------------------
(* The mongodb cleanup block of process(), lines 57-76, run on the analysis
   documents of one task *)

\* The five places of an analysis document that hold GridFS ids (lines 61-72).
Fields == {"target", "shots", "pcap", "sorted_pcap", "dropped"}

\* The GridFS ids a document holds in one of these places.
FieldBlobs(doc, f) ==
    CASE f = "target" -> IF doc.target = NoBlob THEN {} ELSE {doc.target}
      [] f = "shots" -> doc.shots
      [] f = "pcap" -> IF doc.pcap = NoBlob THEN {} ELSE {doc.pcap}
      [] f = "sorted_pcap" -> IF doc.sorted_pcap = NoBlob THEN {} ELSE {doc.sorted_pcap}
      [] f = "dropped" -> doc.dropped

\* mdata.analysis.find({"<field>": ObjectId(b)}).count(): the documents that
\* hold b in this one place
FindCount(an, f, b) == Cardinality({r \in DOMAIN an : b \in FieldBlobs(an[r], f)})

\* The files fs.delete is called on while document r is handled: those the
\* document holds in a place for which the count over that same place is 1.
Deleted(an, r) ==
    {b \in Blobs : \E f \in Fields : b \in FieldBlobs(an[r], f) /\ FindCount(an, f, b) = 1}

\* mdata.analysis.find({"info.id": T}): the ids of the documents of task T
AnalysesOf(an, T) == {r \in DOMAIN an : an[r].info_id = T}

\* "for analysis in analyses:" over the documents rs that are left to handle,
\* in cursor order.  For each: the deletions of lines 61-72 counted against
\* the collection as it is then, the calls removed (73-75), the document
\* removed (76).  m is the store [analysis, blobs, calls].
RECURSIVE CleanupLoop(_, _)
CleanupLoop(m, rs) ==
    IF rs = {} THEN m
    ELSE LET r == SetMin(rs)
             doc == m.analysis[r]
         IN CleanupLoop([analysis |-> [q \in DOMAIN m.analysis \ {r} |-> m.analysis[q]],
                         blobs |-> m.blobs \ Deleted(m.analysis, r),
                         calls |-> m.calls \ doc.calls],
                        rs \ {r})

\* The documents a store may hold: document 1 belongs to task 1, every place
\* holds no file or one file, and a document lists its own call document.
Docs(r) ==
    [info_id : IF r = 1 THEN {1} ELSE {1, 2},
     target : {NoBlob} \cup Blobs,
     shots : {{}} \cup {{b} : b \in Blobs},
     pcap : {NoBlob} \cup Blobs,
     sorted_pcap : {NoBlob} \cup Blobs,
     dropped : {{}} \cup {{b} : b \in Blobs},
     calls : {{r}}]

\* A call of process(report=True) with mongodb enabled has passed its stages
\* and reaches the cleanup block for task wargs.task.
CleanupInit ==
    /\ tasks = [i \in 1..2 |->
                  [file_path |-> "/bin/sample", priority |-> 1, added_on |-> 0,
                   completed_on |-> 0, status |-> TASK_COMPLETED]]
    /\ inserted = [i \in 1..2 |-> i]
    /\ now = 0
    /\ loaded = [p \in Procs |-> IF p = "submit" THEN 0 ELSE NoTime]
    /\ ret = NoCall
    /\ AutoIdle
    /\ disp = [d \in Dispatchers |-> IdleDisp]
    /\ cw = [w \in CWorkers |-> IdleCw]
    /\ wpc = "cleanup"
    /\ \E T \in 1..2 :
          wargs = [task |-> T, report |-> TRUE, auto |-> FALSE, mongo |-> TRUE,
                   delete_original |-> FALSE, delete_bin_copy |-> FALSE]
    /\ steps = <<"stages">>
    /\ exc = "none"
    /\ files = SampleFiles
    /\ analysis \in [1..MaxRecords -> UNION {Docs(r) : r \in 1..MaxRecords}]
    /\ \A r \in 1..MaxRecords : analysis[r] \in Docs(r)
    /\ blobs = Blobs
    /\ calls = 1..MaxRecords

\* lines 57-77 for the documents of task wargs.task
CleanupBlock ==
    /\ wpc = "cleanup"
    /\ LET m == CleanupLoop([analysis |-> analysis, blobs |-> blobs, calls |-> calls],
                            AnalysesOf(analysis, wargs.task))
       IN /\ analysis' = m.analysis
          /\ blobs' = m.blobs
          /\ calls' = m.calls
    /\ steps' = Append(steps, "cleanup")
    /\ wpc' = "report"
    /\ UNCHANGED <<storeVars, loopVars, wargs, exc, files, concVars>>

CleanupNext == CleanupBlock

CleanupSpec == CleanupInit /\ [][CleanupNext]_vars

----------------------------------------------------------------------------
(* Two pool workers of one autoprocess run in the cleanup block and the report
   stage at the same time (lines 56-80; submitted at lines 146-150).  Every
   query, fs.delete and remove is a step of its own on the shared store. *)

\* The order in which lines 60-72 go through the places of a document.
FieldIdx(f) ==
    CASE f = "target" -> 1 [] f = "shots" -> 2 [] f = "pcap" -> 3
      [] f = "sorted_pcap" -> 4 [] f = "dropped" -> 5

\* The <<place, file>> pairs lines 60-72 look at for one document.
Pairs(doc) == {p \in Fields \X Blobs : p[2] \in FieldBlobs(doc, p[1])}

\* The cursor moves to the next document of rs, or the loop is over.
NextDoc(c, an, rs) ==
    IF rs = {}
    THEN [c EXCEPT !.pc = "report", !.left = {}, !.doc = NoId, !.todo = {}]
    ELSE LET r == SetMin(rs) IN
         [c EXCEPT !.pc = "count", !.left = rs \ {r}, !.doc = r, !.todo = Pairs(an[r])]

\* The documents the two tasks have from their first report: document w
\* belongs to task w and holds at most a target sample and one dropped file.
RaceDocs(w) ==
    [info_id : {w},
     target : {NoBlob} \cup Blobs,
     shots : {{}},
     pcap : {NoBlob},
     sorted_pcap : {NoBlob},
     dropped : {{}} \cup {{b} : b \in Blobs},
     calls : {{w}}]

\* Both workers have passed their stages and are at line 56, each for its task.
RaceInit ==
    /\ tasks = [i \in CWorkers |->
                  [file_path |-> "/bin/sample", priority |-> 1, added_on |-> 0,
                   completed_on |-> 0, status |-> TASK_COMPLETED]]
    /\ inserted = [i \in 1..2 |-> i]
    /\ now = 0
    /\ loaded = [p \in Procs |-> IF p = "submit" THEN 0 ELSE NoTime]
    /\ ret = NoCall
    /\ AutoIdle
    /\ disp = [d \in Dispatchers |-> IdleDisp]
    /\ wpc = "off"
    /\ wargs = NoArgs
    /\ steps = <<>>
    /\ exc = "none"
    /\ files = {}
    /\ analysis \in [CWorkers -> UNION {RaceDocs(w) : w \in CWorkers}]
    /\ \A w \in CWorkers : analysis[w] \in RaceDocs(w)
    /\ blobs = Blobs
    /\ calls = CWorkers
    /\ cw = [w \in CWorkers |-> [IdleCw EXCEPT !.pc = "find", !.orig = analysis[w]]]

\* lines 56-59: the documents of the worker's task are queried
CFind(w) ==
    /\ cw[w].pc = "find"
    /\ cw' = [cw EXCEPT ![w] = NextDoc(cw[w], analysis, AnalysesOf(analysis, w))]
    /\ UNCHANGED <<storeVars, loopVars, workerVars, mongoVars, disp>>

\* lines 61-71, the query half: find({place: id}).count() == 1 for the next
\* file of the document, places in the order of the code
CCount(w) ==
    /\ cw[w].pc = "count"
    /\ \E p \in cw[w].todo :
          /\ \A q \in cw[w].todo : FieldIdx(p[1]) <= FieldIdx(q[1])
          /\ cw' = IF FindCount(analysis, p[1], p[2]) = 1
                    THEN [cw EXCEPT ![w].pc = "delete", ![w].hit = p]
                    ELSE [cw EXCEPT ![w].todo = cw[w].todo \ {p}]
    /\ UNCHANGED <<storeVars, loopVars, workerVars, mongoVars, disp>>

\* lines 62-72, the delete half: fs.delete(id)
CDelete(w) ==
    /\ cw[w].pc = "delete"
    /\ blobs' = blobs \ {cw[w].hit[2]}
    /\ cw' = [cw EXCEPT ![w].pc = "count", ![w].hit = NoHit,
                        ![w].todo = cw[w].todo \ {cw[w].hit}]
    /\ UNCHANGED <<storeVars, loopVars, workerVars, analysis, calls, disp>>

\* lines 73-76: the calls of the document and the document are removed
CRemove(w) ==
    /\ cw[w].pc = "count"
    /\ cw[w].todo = {}
    /\ calls' = calls \ analysis[cw[w].doc].calls
    /\ analysis' = [r \in DOMAIN analysis \ {cw[w].doc} |-> analysis[r]]
    /\ cw' = [cw EXCEPT ![w] = NextDoc(cw[w], analysis, cw[w].left)]
    /\ UNCHANGED <<storeVars, loopVars, workerVars, blobs, disp>>

\* line 80: RunReporting stores the regenerated report: the files of the
\* analysis are put into GridFS unless they are there, and an analysis
\* document that references them is inserted under a new _id.
CReport(w) ==
    /\ cw[w].pc = "report"
    /\ blobs' = blobs \cup UNION {FieldBlobs(cw[w].orig, f) : f \in Fields}
    /\ calls' = calls \cup cw[w].orig.calls
    /\ analysis' = InsertRow(analysis, w + MaxRecords, cw[w].orig)
    /\ cw' = [cw EXCEPT ![w].pc = "ended"]
    /\ UNCHANGED <<storeVars, loopVars, workerVars, disp>>

RaceNext ==
    \/ \E w \in CWorkers : CFind(w)
    \/ \E w \in CWorkers : CCount(w)
    \/ \E w \in CWorkers : CDelete(w)
    \/ \E w \in CWorkers : CRemove(w)
    \/ \E w \in CWorkers : CReport(w)

RaceSpec == RaceInit /\ [][RaceNext]_vars

----------------------------------------------------------------------------
(* Properties of the Task Store *)

Terminal == {"success", "reported", "failure", "failed_processing"}

Range(seq) == {seq[k] : k \in DOMAIN seq}
Pos(seq, x) == CHOOSE k \in DOMAIN seq : seq[k] = x

StatusPending == {i \in DOMAIN tasks : tasks[i].status = "pending"}

\* C1: fetch() returns none iff no task is pending; otherwise it returns a
\* pending task of maximal priority among the pending tasks and, among the
\* pending tasks of that priority, of earliest added_on.
C1_FetchBest ==
    ret.op = "fetch" =>
        /\ (ret.val = "none") <=> (StatusPending = {})
        /\ ret.val = "row" =>
              /\ ret.row \in StatusPending
              /\ tasks[ret.row].priority =
                    SetMax({tasks[i].priority : i \in StatusPending})
              /\ tasks[ret.row].added_on =
                    SetMin({tasks[i].added_on :
                              i \in {j \in StatusPending :
                                       tasks[j].priority = tasks[ret.row].priority}})

\* C1 witness: fetch chose between two pending tasks of equal priority and
\* different added_on.
C1_Witness ==
    /\ ret.op = "fetch" /\ ret.val = "row"
    /\ \E j \in StatusPending :
          /\ tasks[j].priority = tasks[ret.row].priority
          /\ tasks[j].added_on > tasks[ret.row].added_on

\* C2: fetch-then-process serves the pending tasks by priority descending and,
\* among equal priorities, in the order in which add inserted them: every
\* other pending task has a lower priority than the fetched one, or the same
\* priority and was inserted after it.
C2_InsertionOrder ==
    ret.op = "fetch" /\ ret.val = "row" =>
        \A j \in StatusPending \ {ret.row} :
            \/ tasks[j].priority < tasks[ret.row].priority
            \/ /\ tasks[j].priority = tasks[ret.row].priority
               /\ Pos(inserted, ret.row) < Pos(inserted, j)

\* C3: add with an empty or missing path returns none and leaves the store
\* unchanged; add with an existing path and a successful commit inserts exactly
\* one new pending task and returns an id no task ever stored before had.
C3_AddContract ==
    [][\A p \in Procs, path \in Paths, prio \in Priorities, ok \in BOOLEAN :
          Add(p, path, prio, ok) =>
             /\ (path = "" \/ path \notin ExistingPaths) =>
                   ret'.val = "none" /\ tasks' = tasks
             /\ (path \in ExistingPaths /\ ok) =>
                   /\ ret'.val = "id"
                   /\ ret'.row \notin Range(inserted)
                   /\ ret'.row \notin DOMAIN tasks
                   /\ DOMAIN tasks' = DOMAIN tasks \cup {ret'.row}
                   /\ tasks'[ret'.row].status = "pending"
                   /\ \A i \in DOMAIN tasks : tasks'[i] = tasks[i]]_vars

\* C3 witness: add has returned the id of a task it inserted into a store
\* that already held a task.
C3_Witness ==
    /\ ret.op = "add" /\ ret.val = "id"
    /\ Len(inserted) >= 2
    /\ ret.row \in DOMAIN tasks

\* C4: after process(id) returned true the task is in status processing, and
\* fetch() never returns a task whose status is not pending.
C4_ClaimedNotFetched ==
    /\ ret.op = "process" /\ ret.val = "true" =>
          tasks[ret.arg].status = "processing"
    /\ ret.op = "fetch" /\ ret.val = "row" =>
          tasks[ret.row].status = "pending"

\* C4 witness: a task is in status processing and a fetch has just returned
\* another task.
C4_Witness ==
    /\ ret.op = "fetch" /\ ret.val = "row"
    /\ \E i \in DOMAIN tasks : i # ret.row /\ tasks[i].status = "processing"

\* C5: complete(id, success) that returns true leaves status success resp.
\* failure, with completed_on set and >= added_on, and changes no other task.
C5_Complete ==
    [][ret'.op \in {"complete_ok", "complete_fail"} /\ ret' # ret
         /\ ret'.val = "true" =>
          /\ DOMAIN tasks' = DOMAIN tasks
          /\ tasks'[ret'.arg].status =
                (IF ret'.op = "complete_ok" THEN "success" ELSE "failure")
          /\ tasks'[ret'.arg].completed_on # NoTime
          /\ tasks'[ret'.arg].completed_on >= tasks'[ret'.arg].added_on
          /\ \A j \in DOMAIN tasks \ {ret'.arg} : tasks'[j] = tasks[j]]_vars

\* C5 witness: complete(id, success=false) returned true at a time later than
\* the task's added_on, with another task in the store.
C5_Witness ==
    /\ ret.op = "complete_fail" /\ ret.val = "true"
    /\ tasks[ret.arg].status = "failure"
    /\ tasks[ret.arg].completed_on > tasks[ret.arg].added_on
    /\ Cardinality(DOMAIN tasks) >= 2

\* C6: completed_on is written at most once: unset while the status is not
\* terminal, set on the transition into a terminal status, never changed later.
C6_CompletedOnWrittenOnce ==
    [][\A i \in DOMAIN tasks :
          /\ tasks[i].completed_on # NoTime =>
                tasks'[i].completed_on = tasks[i].completed_on
          /\ tasks'[i].status \notin Terminal =>
                tasks'[i].completed_on = NoTime
          /\ (tasks[i].status \notin Terminal /\ tasks'[i].status \in Terminal) =>
                tasks'[i].completed_on # NoTime]_vars

\* C7: a task in a terminal status is never moved to another status.
C7_TerminalIsFinal ==
    [][\A i \in DOMAIN tasks :
          tasks[i].status \in Terminal => tasks'[i].status = tasks[i].status]_vars

\* C8: every mutating call, for every argument, commits or returns the
\* falsy/none sentinel without raising, and a call that returns the sentinel
\* leaves the stored tasks as they were.
C8_NeverRaises ==
    [][ret' # ret /\ ret'.op \in {"add", "process", "complete_ok", "complete_fail"} =>
          /\ ret'.val # "raise"
          /\ ret'.val \in {"none", "false"} => tasks' = tasks]_vars

----------------------------------------------------------------------------
(* Properties of the autoprocess loop *)

\* C9: pending_results holds at most parallel records, no two of them for the
\* same task id, and the loop goes on to discovery and submission only when
\* fewer than parallel records are left after the maintenance pass.
C9_InFlightBounded ==
    /\ Len(pending_results) <= parallel
    /\ \A a, b \in DOMAIN pending_results :
          a # b => pending_results[a].tid # pending_results[b].tid
    /\ pc \in {"discover", "submit"} => Len(pending_results) < parallel

\* C9 witness: with parallel = 2 the pool is full after the maintenance pass
\* while a further completed task waits in the store.
C9_Witness ==
    /\ pc = "check"
    /\ parallel = 2
    /\ Len(pending_results) = parallel
    /\ \E i \in DOMAIN tasks :
          tasks[i].status = TASK_COMPLETED /\ i \notin InFlightIds(pending_results)

\* C10: with maxcount > 0 the number of tasks submitted since the loop started
\* never exceeds maxcount.
C10_CountCapped == maxcount > 0 => count <= maxcount

\* C10 witness: the loop has ended at count = maxcount with parallel = 2 while
\* a completed task that was never submitted is left in the store.
C10_Witness ==
    /\ pc = "done"
    /\ maxcount > 0 /\ count = maxcount
    /\ parallel = 2
    /\ \E i \in DOMAIN tasks :
          tasks[i].status = TASK_COMPLETED /\ i \notin InFlightIds(pending_results)

\* The tasks whose status is terminal for the post-processing loop.
ReportedOrFailed ==
    {i \in DOMAIN tasks : tasks[i].status \in {TASK_REPORTED, TASK_FAILED_PROCESSING}}

\* The loop has ended without an interrupt and no pool worker is running any
\* more: no step of the loop or of a worker can follow.
Stabilized ==
    /\ pc = "done"
    /\ \A k \in DOMAIN pending_results : pending_results[k].ar # "running"

\* C11: with maxcount = M > 0 and more than M tasks completed at the start, the
\* run stabilizes in a state where exactly M tasks are reported or
\* failed_processing and every other task is still completed and was never
\* submitted.
C11_ExactlyMTerminal ==
    (Stabilized /\ maxcount > 0 /\ Cardinality(DOMAIN tasks) > maxcount) =>
        /\ Cardinality(ReportedOrFailed) = maxcount
        /\ \A i \in DOMAIN tasks \ ReportedOrFailed :
              tasks[i].status = TASK_COMPLETED /\ i \notin submitted

\* The step is the maintenance pass of lines 105-116.
ReapStep == pc = "reap" /\ pc' = "check"

\* The records of pending_results whose worker has finished by raising.
RaisedNow == {pending_results[k].tid :
                k \in {j \in DOMAIN pending_results :
                          pending_results[j].ar \in {"StageError", "NameError"}}}

\* The records of task i in a pending_results list.
RecordsOf(pr, i) == SelectSeq(pr, LAMBDA r : r.tid = i)

\* C12 as stated: the maintenance pass sets the status of a task T whose worker
\* raised to failed_processing, removes T's record, the loop keeps running, and
\* the status and the record of every task other than T are unchanged.
C12_ReapAsStated ==
    [][ReapStep =>
          \A T \in RaisedNow :
             /\ tasks'[T].status = TASK_FAILED_PROCESSING
             /\ T \notin InFlightIds(pending_results')
             /\ pc' \notin {"done", "interrupted"}
             /\ \A i \in DOMAIN tasks \ {T} :
                   /\ tasks'[i].status = tasks[i].status
                   /\ RecordsOf(pending_results', i) = RecordsOf(pending_results, i)]_vars

\* C12 amended: the maintenance pass removes the record of every task whose
\* worker raised and sets its status to failed_processing, or leaves the status
\* as it was when set_status does not commit; the loop keeps running; the
\* status of every task whose worker did not raise is unchanged, and so is the
\* record of every task whose worker is still running.
C12_ReapRaised ==
    [][ReapStep =>
          /\ \A T \in RaisedNow :
                /\ tasks'[T].status \in {TASK_FAILED_PROCESSING, tasks[T].status}
                /\ T \notin InFlightIds(pending_results')
          /\ pc' \notin {"done", "interrupted"}
          /\ \A i \in DOMAIN tasks \ RaisedNow : tasks'[i] = tasks[i]
          /\ pending_results' =
                SelectSeq(pending_results, LAMBDA r : r.ar = "running")]_vars

\* C12 witness: after a maintenance pass a task whose worker raised is
\* failed_processing and has no record, while the record of another task,
\* whose worker is running, is still there.
C12_Witness ==
    /\ pc = "check"
    /\ \E i \in submitted :
          /\ tasks[i].status = TASK_FAILED_PROCESSING
          /\ i \notin InFlightIds(pending_results)
    /\ \E k \in DOMAIN pending_results : pending_results[k].ar = "running"

\* C13: the interrupt step leaves no worker running and writes no task status;
\* after it the loop takes no further step, no worker result arrives, and every
\* in-flight task keeps the status it had.
C13_InterruptWritesNoStatus ==
    [][/\ (pc # "interrupted" /\ pc' = "interrupted") =>
             /\ tasks' = tasks
             /\ InFlightIds(pending_results') = InFlightIds(pending_results)
             /\ \A k \in DOMAIN pending_results' : pending_results'[k].ar # "running"
       /\ pc = "interrupted" =>
             /\ pc' = "interrupted"
             /\ pending_results' = pending_results
             /\ \A i \in InFlightIds(pending_results) :
                   tasks'[i].status = tasks[i].status]_vars

\* C13 witness: the loop has been interrupted with a task in flight whose
\* worker was terminated; the task is still completed.
C13_Witness ==
    /\ pc = "interrupted"
    /\ \E k \in DOMAIN pending_results :
          /\ pending_results[k].ar = "terminated"
          /\ tasks[pending_results[k].tid].status = TASK_COMPLETED

\* Every GridFS id an analysis document holds, in whatever place.
AllBlobs(doc) == UNION {FieldBlobs(doc, f) : f \in Fields}

\* The step is one run of the cleanup block.
CleanupStep == wpc = "cleanup" /\ wpc' = "report"

CleanupRunEnded ==
    wpc = "ended" /\ wargs.report /\ wargs.mongo /\ exc # "StageError"

\* C15: after a cleanup run for task T no analysis record of T is left, every
\* artifact and every per-call document that is left is referenced by an
\* analysis record that is left, and the records of other tasks are there.
C15_CleanupRemoves ==
    CleanupRunEnded =>
        /\ AnalysesOf(analysis, wargs.task) = {}
        /\ \A b \in blobs : \E r \in DOMAIN analysis : b \in AllBlobs(analysis[r])
        /\ \A c \in calls : \E r \in DOMAIN analysis : c \in analysis[r].calls
        /\ \A r \in DOMAIN SmallAnalysis :
              SmallAnalysis[r].info_id # wargs.task =>
                 r \in DOMAIN analysis /\ analysis[r] = SmallAnalysis[r]

\* C16: in single-task mode, when a stage of the pipeline raised, the task is
\* in status failed_processing once the call has ended.
C16_SingleModeFailureVisible ==
    (wpc = "ended" /\ ~wargs.auto /\ exc = "StageError") =>
        tasks[wargs.task].status = TASK_FAILED_PROCESSING

\* C19: a worker run with reporting requested in which no stage raised has
\* done, in this order, the blob cleanup (with mongodb enabled), the report
\* regeneration and the status commit; and the sample or its copy is gone only
\* after the commit.
C19_StepOrder ==
    (wpc = "ended" /\ wargs.report /\ exc # "StageError") =>
        /\ "report" \in Range(steps)
        /\ "commit" \in Range(steps)
        /\ Pos(steps, "report") < Pos(steps, "commit")
        /\ wargs.mongo =>
              "cleanup" \in Range(steps) /\ Pos(steps, "cleanup") < Pos(steps, "report")
        /\ files # SampleFiles => tasks[wargs.task].status = TASK_REPORTED

\* C17: with maxcount > 0, whenever the loop has exited without an interrupt,
\* count >= maxcount and pending_results is empty.
C17_ExitDrained ==
    (pc = "done" /\ maxcount > 0) => (count >= maxcount /\ pending_results = <<>>)

\* C18: a task whose stages all completed without raising is not set to
\* failed_processing by the maintenance pass and is reported once its record
\* has been removed; a task with a stage that raised is never reported.
C18_OutcomeMatchesStatus ==
    [][ReapStep =>
          \A k \in DOMAIN pending_results :
             LET r == pending_results[k] IN
               /\ r.ar = "NameError" => tasks'[r.tid].status = TASK_REPORTED
               /\ r.ar = "StageError" => tasks'[r.tid].status # TASK_REPORTED]_vars

\* The step is the submission part of one loop iteration (lines 130-158).
SubmitStep == pc = "submit" /\ pc' = "start"

\* The completed tasks that have no record in pending_results.
Submittable ==
    {i \in DOMAIN tasks :
        tasks[i].status = TASK_COMPLETED /\ i \notin InFlightIds(pending_results)}

\* C20: one loop iteration appends at most one record and count grows by the
\* number appended; the task submitted is completed, not in flight, and has
\* the earliest completed_on among the completed tasks that are not in flight.
C20_SubmitOneEarliest ==
    [][SubmitStep =>
          LET n == Len(pending_results') - Len(pending_results) IN
            /\ n \in {0, 1}
            /\ count' = count + n
            /\ n = 0 => pending_results' = pending_results
            /\ n = 1 =>
                  LET t == pending_results'[Len(pending_results')].tid IN
                    /\ SubSeq(pending_results', 1, Len(pending_results)) = pending_results
                    /\ t \in Submittable
                    /\ \A i \in Submittable :
                          tasks[t].completed_on <= tasks[i].completed_on]_vars

\* C20 witness: the iteration that just ended submitted a task while a task
\* completed strictly later was waiting, not in flight.
C20_Witness ==
    /\ pc = "start" /\ added
    /\ pending_results # <<>>
    /\ pending_results[Len(pending_results)].ar = "running"
    /\ \E i \in Submittable :
          tasks[i].completed_on >
             tasks[pending_results[Len(pending_results)].tid].completed_on

\* The submitted tasks whose record the maintenance pass has removed.
Reaped == submitted \ InFlightIds(pending_results)

\* C23: when every status commit succeeds, no task id is appended to
\* pending_results more than once, a reaped task is in a terminal status and
\* so is not listed again, and count is the number of distinct tasks submitted.
C23_SubmittedOnce ==
    /\ count = Cardinality(submitted)
    /\ \A i \in Reaped : tasks[i].status \in {TASK_REPORTED, TASK_FAILED_PROCESSING}
    /\ \A i \in Range(listed) : i \notin Reaped

\* C23 witness: the iteration that just ended submitted a second task after an
\* earlier one had been reaped as failed_processing.
C23_Witness ==
    /\ pc = "start" /\ added
    /\ count >= 2
    /\ pending_results # <<>>
    /\ \E i \in Reaped : tasks[i].status = TASK_FAILED_PROCESSING

\* C21: process(id) returns true whenever its commit succeeds and leaves the
\* task in status processing, whatever status the task had, also when the
\* other dispatcher has claimed it in the meantime; nothing in the call refuses
\* a second claim.
C21_ClaimNotGuarded ==
    [][\A d \in Dispatchers :
          (disp[d].pc = "fetched" /\ disp'[d].pc = "claimed") =>
             /\ disp'[d].val = Bool(disp'[d].committed)
             /\ disp'[d].val = "true" => tasks'[disp[d].row].status = "processing"
             /\ disp'[d].val = "false" => tasks' = tasks]_vars

\* C21 witness: both dispatchers fetched the same task while it was pending
\* (fetch returns pending tasks only) and both calls of process(id) returned
\* true: the task is claimed twice.
C21_Witness ==
    /\ \A d \in Dispatchers : disp[d].pc = "claimed" /\ disp[d].val = "true"
    /\ disp["d1"].row = disp["d2"].row
    /\ tasks[disp["d1"].row].status = "processing"

====
